---- MODULE Spec2Model ----
(***************************************************************************)
(* A model of firedoc: the FireDoc document handle (src/src/FireDoc.ts,    *)
(* class FireDoc) and the collection binder returned by registerFireDoc    *)
(* (same file, second half).  The Firestore database is the external       *)
(* collaborator; one remote document (the one behind this.docRef) and one  *)
(* collection listing are modelled.                                        *)
(*                                                                         *)
(* Asynchronous calls: a call that awaits the database puts a request in   *)
(* `pending`; a later step serves the request at the database and runs the *)
(* continuation after the await.  Requests are served in any order.        *)
(***************************************************************************)
EXTENDS Integers, Sequences, FiniteSets, TLC

VARIABLES
    docRefId,              \* FireDoc.docRefId
    docRef,                \* FireDoc.docRef: the collection path and id it was made from
    docFields,             \* FireDoc.docFields
    docFieldKeysChanged,   \* FireDoc.docFieldKeysChanged
    remoteDoc,             \* the document stored at FireDoc.docRef
    pending,               \* database requests awaited by load/save/delete
    last,                  \* the most recent call or continuation and its outcome
    fullSave,              \* payload of the latest completed full-mode save not yet overwritten
    saveCalls,             \* payloads of the save calls made (concurrent-save scenario)
    saveAcks,              \* payloads of the save calls that completed successfully, in completion order
    collection,            \* withRawFilter: number of documents in the collection
    matching,              \* withRawFilter: ids of the documents input.filter accepts
    input,                 \* withRawFilter: input.page and input.perPage
    searchPage,            \* withRawFilter: searchPage
    searchFoundItemIds,    \* withRawFilter: searchFoundItemIds
    searchPc,              \* withRawFilter: position in the function
    queries,               \* withRawFilter: offsets of the windows fetched so far, in order
    result,                \* withRawFilter: the returned {allPages, docs}
    collectionPath,        \* the value the binder's collectionPath (string or function) yields now
    store,                 \* the documents in the database when the binder is called
    binderCall,            \* the binder call made: its arguments and its position
    calls,                 \* the database calls made by the binder call and the constructor
    made,                  \* the handles the binder call returned
    heap,                  \* the objects of the program, by address
    handles,               \* handles by the address of their docFields object
    held,                  \* addresses of the objects the caller holds
    acted,                 \* the most recent call and the handle it was made on
    lateSets               \* history: the setField calls made while a write was in flight

handleVars == <<docRefId, docRef, docFields, docFieldKeysChanged, remoteDoc, pending, last, fullSave>>
concVars == <<saveCalls, saveAcks>>
searchVars == <<collection, matching, input, searchPage, searchFoundItemIds, searchPc, queries, result>>
binderVars == <<collectionPath, store, binderCall, calls, made>>
aliasVars == <<heap, handles, held, acted>>
flightVars == <<lateSets>>
vars == <<handleVars, concVars, searchVars, binderVars, aliasVars, flightVars>>

(***************************************************************************)
(* Bounds                                                                  *)
(***************************************************************************)
MaxChanged == 2     \* longest docFieldKeysChanged explored
MaxPending == 1     \* most requests in flight at once
MaxSaves == 2       \* save calls in the concurrent-save scenario
MaxLocalChanged == 3 \* longest docFieldKeysChanged explored without requests in flight
MaxPage == 3        \* largest input.page explored
MaxPerPage == 3     \* largest input.perPage explored

Keys == {"a", "b"}
Ids == {"doc1"}

(***************************************************************************)
(* Field values.  Timestamp and FieldValue.delete() are the database's     *)
(* native values; Undefined is JavaScript's undefined.                     *)
(***************************************************************************)
Num(n) == [kind |-> "number", v |-> n]
Timestamp(seconds) == [kind |-> "Timestamp", v |-> seconds]
Date(ms) == [kind |-> "Date", v |-> ms]
FieldDelete == [kind |-> "FieldValue.delete", v |-> 0]
Undefined == [kind |-> "undefined", v |-> 0]

\* Timestamp.toDate(): seconds since the epoch to a Date in milliseconds.
ToDate(ts) == Date(ts.v * 1000)

InputValues == {Num(1), Timestamp(1), Undefined}

EmptyObj == [k \in {} |-> Undefined]
Put(obj, key, value) == [k \in (DOMAIN obj) \cup {key} |-> IF k = key THEN value ELSE obj[k]]
Objects(values) == UNION {[D -> values] : D \in SUBSET Keys}

\* A document reference: collection path + '/' + id.
Ref(path, id) == [collection |-> path, id |-> id]

NoDoc == [exists |-> FALSE, data |-> EmptyObj]
Doc(data) == [exists |-> TRUE, data |-> data]

(***************************************************************************)
(* The database (firebase-admin/firestore), as used by the handle          *)
(***************************************************************************)
\* DocumentReference.set(data, {merge}) refuses FieldValue.delete() unless merge is set.
SetRefused(data, merge) == ~merge /\ \E k \in DOMAIN data : data[k] = FieldDelete

\* DocumentReference.set(data, {merge}) applied to the stored document:
\* create-or-update; with merge the fields outside the payload are kept,
\* without merge the document is replaced; FieldValue.delete() removes the field.
ApplySet(doc, data, merge) ==
    LET base == IF merge THEN doc.data ELSE EmptyObj
        deleted == {k \in DOMAIN data : data[k] = FieldDelete}
        keys == ((DOMAIN base) \cup (DOMAIN data)) \ deleted
    IN  Doc([k \in keys |-> IF k \in DOMAIN data THEN data[k] ELSE base[k]])

\* A request in flight.  onlyChanges (the mode of the save that issued a set)
\* and dirty (setField ran since a get was issued) record history.
\* load, save and delete call get, set and delete on this.docRef.
RequestRefRecomputed == Ref(collectionPath, docRefId)
RequestRef == docRef

Request(op, data, merge, onlyChanges) ==
    [op |-> op, ref |-> RequestRef, data |-> data, merge |-> merge,
     onlyChanges |-> onlyChanges, dirty |-> FALSE]
RemoveAt(seq, i) == SubSeq(seq, 1, i - 1) \o SubSeq(seq, i + 1, Len(seq))

\* What a call or a continuation did: the operation, its arguments, the
\* outcome of its promise, the data it carried and the error it threw.
Event(op, key, val, option, outcome, data, err, id) ==
    [op |-> op, key |-> key, val |-> val, option |-> option,
     outcome |-> outcome, data |-> data, err |-> err, id |-> id]

NoFullSave == [valid |-> FALSE, data |-> EmptyObj]

(***************************************************************************)
(* FireDoc: pure methods                                                   *)
(***************************************************************************)
\* The loop of getDocDataForSaveOperation over docFieldKeysChanged.
RECURSIVE CopyChangedKeys(_, _, _)
CopyChangedKeys(fields, changed, docFieldsToSave) ==
    IF changed = <<>> THEN docFieldsToSave
    ELSE LET key == Head(changed)
         IN  CopyChangedKeys(fields, Tail(changed),
                 IF key \in DOMAIN fields
                 THEN Put(docFieldsToSave, key, fields[key])
                 ELSE docFieldsToSave)

GetDocDataAllFields(fields, changed, onlyChanged) == fields
GetDocDataForSaveOperation(fields, changed, onlyChanged) ==
    IF onlyChanged THEN CopyChangedKeys(fields, changed, EmptyObj) ELSE fields

GetField(fields, fieldName) ==
    LET value == IF fieldName \in DOMAIN fields THEN fields[fieldName] ELSE Undefined
    IN  IF value.kind = "Timestamp" THEN ToDate(value) ELSE value

\* The value setField stores for an argument.
StoredValue(value) == IF value = Undefined THEN FieldDelete ELSE value

\* save(option): option is a boolean, 'changes' or 'overwrite'; "default" is the omitted argument.
SaveOptions == {"default", "changes", "overwrite", "true", "false"}
OnlyChangesIgnoresBoolean(option) == option \in {"default", "changes"}
OnlyChanges(option) ==
    IF option \in {"true", "false"} THEN option = "true"
    ELSE (IF option = "default" THEN "changes" ELSE option) = "changes"

\* resetDocFieldKeysChanged(): this.docFieldKeysChanged = []
ChangedKeysKept(changed) == changed
ChangedKeysAfterReset(changed) == <<>>

\* The merge flag save passes to docRef.set.
MergeNever(onlyChanges) == FALSE
MergeAlways(onlyChanges) == TRUE
MergeOption(onlyChanges) == onlyChanges

\* save writes only when Object.keys(docData).length is not zero.
HasKeysAlways(docData) == TRUE
HasKeys(docData) == DOMAIN docData # {}

\* load: snapshot.data() is undefined, and load throws, when the document does not exist.
LoadSucceedsAlways(snapshot) == TRUE
LoadSucceeds(snapshot) == snapshot.exists

\* load: this.docFields = docData
LoadedFieldsMerged(fields, docData) ==
    [k \in (DOMAIN fields) \cup (DOMAIN docData) |->
        IF k \in DOMAIN docData THEN docData[k] ELSE fields[k]]
LoadedFields(fields, docData) == docData

(***************************************************************************)
(* FireDoc: operations                                                     *)
(***************************************************************************)
\* setField(fieldName, value); setFields makes one such call for every
\* entry of its argument.
SetFieldDeletesUndefined(fieldName, value) ==
    /\ docFields' = IF value = Undefined
                    THEN [k \in (DOMAIN docFields) \ {fieldName} |-> docFields[k]]
                    ELSE Put(docFields, fieldName, value)
    /\ docFieldKeysChanged' = Append(docFieldKeysChanged, fieldName)
    /\ pending' = [i \in DOMAIN pending |->
                     IF pending[i].op = "get" THEN [pending[i] EXCEPT !.dirty = TRUE]
                     ELSE pending[i]]
    /\ last' = Event("setField", fieldName, value, "", "returned", EmptyObj, "", "")
    /\ UNCHANGED <<docRefId, docRef, remoteDoc, fullSave>>

SetField(fieldName, value) ==
    /\ docFields' = Put(docFields, fieldName, StoredValue(value))
    /\ docFieldKeysChanged' = Append(docFieldKeysChanged, fieldName)
    \* history: a load in flight has seen a local mutation
    /\ pending' = [i \in DOMAIN pending |->
                     IF pending[i].op = "get" THEN [pending[i] EXCEPT !.dirty = TRUE]
                     ELSE pending[i]]
    /\ last' = Event("setField", fieldName, value, "", "returned", EmptyObj, "", "")
    /\ UNCHANGED <<docRefId, docRef, remoteDoc, fullSave>>

ResetDocFieldKeysChanged ==
    /\ docFieldKeysChanged # <<>>
    /\ docFieldKeysChanged' = ChangedKeysAfterReset(docFieldKeysChanged)
    /\ last' = Event("resetDocFieldKeysChanged", "", Undefined, "", "returned", EmptyObj, "", "")
    /\ UNCHANGED <<docRefId, docRef, docFields, remoteDoc, pending, fullSave>>

\* load(), up to the await of docRef.get().
Load ==
    /\ pending' = Append(pending, Request("get", EmptyObj, FALSE, FALSE))
    /\ last' = Event("load", "", Undefined, "", "pending", EmptyObj, "", "")
    /\ UNCHANGED <<docRefId, docRef, docFields, docFieldKeysChanged, remoteDoc, fullSave>>

\* The database serves the get and load() continues after the await.
LoadContinue(i) ==
    /\ i \in DOMAIN pending
    /\ pending[i].op = "get"
    /\ pending' = RemoveAt(pending, i)
    /\ IF LoadSucceeds(remoteDoc)
       THEN /\ docFieldKeysChanged' = ChangedKeysAfterReset(docFieldKeysChanged)
            /\ docFields' = LoadedFields(docFields, remoteDoc.data)
            /\ last' = Event("loadDone", "", Undefined,
                             IF pending[i].dirty THEN "dirty" ELSE "",
                             "resolved", remoteDoc.data, "", docRefId)
       ELSE /\ last' = Event("loadDone", "", Undefined,
                             IF pending[i].dirty THEN "dirty" ELSE "",
                             "rejected", EmptyObj, "does not exist", docRefId)
            /\ UNCHANGED <<docFields, docFieldKeysChanged>>
    /\ UNCHANGED <<docRefId, docRef, remoteDoc, fullSave>>

\* save(option), up to the await of docRef.set(); with an empty payload the
\* call returns without a request, and a payload the database refuses makes
\* the call throw.
Save(option) ==
    LET onlyChanges == OnlyChanges(option)
        docData == GetDocDataForSaveOperation(docFields, docFieldKeysChanged, onlyChanges)
        merge == MergeOption(onlyChanges)
    IN  /\ docFieldKeysChanged' = ChangedKeysAfterReset(docFieldKeysChanged)
        /\ IF ~HasKeys(docData)
           THEN /\ pending' = pending
                /\ last' = Event("save", "", Undefined, option, "resolved", docData, "", docRefId)
                /\ fullSave' = IF onlyChanges THEN fullSave ELSE [valid |-> TRUE, data |-> docData]
           ELSE IF SetRefused(docData, merge)
           THEN /\ pending' = pending
                /\ last' = Event("save", "", Undefined, option, "rejected", docData, "delete refused", "")
                /\ fullSave' = fullSave
           ELSE /\ pending' = Append(pending, Request("set", docData, merge, onlyChanges))
                /\ last' = Event("save", "", Undefined, option, "pending", docData, "", "")
                /\ fullSave' = fullSave
        /\ UNCHANGED <<docRefId, docRef, docFields, remoteDoc>>

\* The database applies the write and save() continues after the await.
SaveContinueResetsChangedKeys(i) ==
    /\ i \in DOMAIN pending
    /\ pending[i].op = "set"
    /\ pending' = RemoveAt(pending, i)
    /\ remoteDoc' = ApplySet(remoteDoc, pending[i].data, pending[i].merge)
    /\ last' = Event("saveDone", "", Undefined, IF pending[i].onlyChanges THEN "changes" ELSE "full",
                     "resolved", pending[i].data, "", docRefId)
    /\ fullSave' = IF pending[i].onlyChanges THEN NoFullSave
                   ELSE [valid |-> TRUE, data |-> pending[i].data]
    /\ docFieldKeysChanged' = <<>>
    /\ UNCHANGED <<docRefId, docRef, docFields>>

SaveContinue(i) ==
    /\ i \in DOMAIN pending
    /\ pending[i].op = "set"
    /\ pending' = RemoveAt(pending, i)
    /\ remoteDoc' = ApplySet(remoteDoc, pending[i].data, pending[i].merge)
    /\ last' = Event("saveDone", "", Undefined, IF pending[i].onlyChanges THEN "changes" ELSE "full",
                     "resolved", pending[i].data, "", docRefId)
    /\ fullSave' = IF pending[i].onlyChanges THEN NoFullSave
                   ELSE [valid |-> TRUE, data |-> pending[i].data]
    /\ UNCHANGED <<docRefId, docRef, docFields, docFieldKeysChanged>>

\* delete(), up to the await of docRef.delete().
DeleteClearsLocalState ==
    /\ pending' = Append(pending, Request("delete", EmptyObj, FALSE, FALSE))
    /\ last' = Event("delete", "", Undefined, "", "pending", EmptyObj, "", "")
    /\ docFields' = EmptyObj
    /\ docFieldKeysChanged' = <<>>
    /\ UNCHANGED <<docRefId, docRef, remoteDoc, fullSave>>

Delete ==
    /\ pending' = Append(pending, Request("delete", EmptyObj, FALSE, FALSE))
    /\ last' = Event("delete", "", Undefined, "", "pending", EmptyObj, "", "")
    /\ UNCHANGED <<docRefId, docRef, docFields, docFieldKeysChanged, remoteDoc, fullSave>>

DeleteContinue(i) ==
    /\ i \in DOMAIN pending
    /\ pending[i].op = "delete"
    /\ pending' = RemoveAt(pending, i)
    /\ remoteDoc' = NoDoc
    /\ last' = Event("deleteDone", "", Undefined, "", "resolved", EmptyObj, "", docRefId)
    /\ fullSave' = NoFullSave
    /\ UNCHANGED <<docRefId, docRef, docFields, docFieldKeysChanged>>

\* The database fails a request; the awaiting call throws the failure unchanged.
RequestFailsRestoresChangedKeys(i) ==
    /\ i \in DOMAIN pending
    /\ pending' = RemoveAt(pending, i)
    /\ last' = Event(CASE pending[i].op = "get" -> "loadDone"
                       [] pending[i].op = "set" -> "saveDone"
                       [] OTHER -> "deleteDone",
                     "", Undefined, "", "rejected", pending[i].data, "database failure", "")
    /\ docFieldKeysChanged' = docFieldKeysChanged
                                \o SelectSeq(<<"a", "b">>, LAMBDA k : k \in DOMAIN pending[i].data)
    /\ UNCHANGED <<docRefId, docRef, docFields, remoteDoc, fullSave>>

RequestFails(i) ==
    /\ i \in DOMAIN pending
    /\ pending' = RemoveAt(pending, i)
    /\ last' = Event(CASE pending[i].op = "get" -> "loadDone"
                       [] pending[i].op = "set" -> "saveDone"
                       [] OTHER -> "deleteDone",
                     "", Undefined, "", "rejected", pending[i].data, "database failure", "")
    /\ UNCHANGED <<docRefId, docRef, docFields, docFieldKeysChanged, remoteDoc, fullSave>>

(***************************************************************************)
(* The database as the binder sees it                                      *)
(***************************************************************************)
\* The values the binder's collectionPath can yield: a literal yields one
\* value for ever, a function may yield another one later.
Paths == {"users", "tenant2/users"}
StoreRefs == {Ref(p, id) : p \in Paths, id \in {"doc1", "doc2"}}
EmptyStore == [r \in StoreRefs |-> NoDoc]
\* The id collection.doc() generates.
AutoId == "auto1"

\* An optional argument: given or left out (undefined).
Given(value) == [given |-> TRUE, value |-> value]
NotGiven(default) == [given |-> FALSE, value |-> default]
NoCall == [at |-> "idle", op |-> "", id |-> NotGiven(""), ref |-> Ref("", ""), path |-> "", n |-> 0]

(***************************************************************************)
(* The handle after construction (constructor with an id and optional      *)
(* docFields; docFieldKeysChanged starts empty) and a remote document.     *)
(***************************************************************************)
InitFields == {EmptyObj, Put(EmptyObj, "a", Num(1)), Put(Put(EmptyObj, "a", Timestamp(1)), "b", Num(1))}
InitRemote == {NoDoc, Doc(EmptyObj), Doc(Put(EmptyObj, "a", Timestamp(1))),
               Doc(Put(Put(EmptyObj, "a", Num(1)), "b", Timestamp(1)))}

HandleInit ==
    /\ docRefId \in Ids
    /\ docRef = Ref("users", docRefId)
    /\ docFields \in InitFields
    /\ docFieldKeysChanged = <<>>
    /\ remoteDoc \in InitRemote
    /\ pending = <<>>
    /\ last = Event("construct", "", Undefined, "", "returned", EmptyObj, "", "")
    /\ fullSave = NoFullSave

\* The search variables while the handle is explored.
SearchIdle ==
    /\ collection = 0
    /\ matching = {}
    /\ input = [page |-> 1, perPage |-> 1]
    /\ searchPage = 0
    /\ searchFoundItemIds = <<>>
    /\ searchPc = "idle"
    /\ queries = <<>>
    /\ result = [allPages |-> 0, docs |-> <<>>]

ConcIdle ==
    /\ saveCalls = <<>>
    /\ saveAcks = <<>>

\* The binder variables while a handle that exists already is explored.
BinderIdle ==
    /\ collectionPath = "users"
    /\ store = EmptyStore
    /\ binderCall = NoCall
    /\ calls = <<>>
    /\ made = <<>>

\* Object identity while one handle, whose object nobody else holds, is explored.
MaxObjects == 3     \* objects allocated in the shared-object scenario
Addrs == 1 .. MaxObjects
NoAct == [op |-> "", handle |-> 0]
AliasIdle ==
    /\ heap = [a \in Addrs |-> EmptyObj]
    /\ handles = <<>>
    /\ held = {}
    /\ acted = NoAct

\* No setField call was made during a write.
FlightIdle == lateSets = EmptyObj

Init == HandleInit /\ ConcIdle /\ SearchIdle /\ BinderIdle /\ AliasIdle /\ FlightIdle

\* The handle's operations, with the bounds of the exploration.
HandleNext ==
    \/ \E k \in Keys, v \in InputValues :
          Len(docFieldKeysChanged) < MaxChanged /\ SetField(k, v)
    \/ ResetDocFieldKeysChanged
    \/ Len(pending) < MaxPending /\ Load
    \/ \E i \in DOMAIN pending : LoadContinue(i)
    \/ \E o \in SaveOptions : Save(o) /\ Len(pending') <= MaxPending
    \/ \E i \in DOMAIN pending : SaveContinue(i)
    \/ Len(pending) < MaxPending /\ Delete
    \/ \E i \in DOMAIN pending : DeleteContinue(i)
    \/ \E i \in DOMAIN pending : RequestFails(i)

Next == HandleNext /\ UNCHANGED <<concVars, searchVars, binderVars, aliasVars, flightVars>>

Spec == Init /\ [][Next]_vars

(***************************************************************************)
(* Synchronous use of one handle, including a caller that holds the object *)
(* getAllFields() returns (it is this.docFields itself) and deletes one of *)
(* its properties.                                                         *)
(***************************************************************************)
DeleteProperty(fieldName) ==
    /\ fieldName \in DOMAIN docFields
    /\ docFields' = [k \in (DOMAIN docFields) \ {fieldName} |-> docFields[k]]
    /\ last' = Event("getAllFields", fieldName, Undefined, "", "returned", EmptyObj, "", "")
    /\ UNCHANGED <<docRefId, docRef, docFieldKeysChanged, remoteDoc, pending, fullSave>>

LocalNext ==
    /\ \/ \E k \in Keys, v \in InputValues :
             Len(docFieldKeysChanged) < MaxLocalChanged /\ SetField(k, v)
       \/ ResetDocFieldKeysChanged
       \/ \E k \in Keys : DeleteProperty(k)
    /\ UNCHANGED <<concVars, searchVars, binderVars, aliasVars, flightVars>>

SpecLocal == Init /\ [][LocalNext]_vars

(***************************************************************************)
(* Concurrent saves: save calls in changes-only mode on one handle, not    *)
(* awaited before the next setField or save.                               *)
(***************************************************************************)
ChangesOptions == {o \in SaveOptions : OnlyChanges(o)}

ConcSave(option) ==
    /\ Len(saveCalls) < MaxSaves
    /\ Save(option)
    /\ saveCalls' = Append(saveCalls, last'.data)
    /\ saveAcks' = IF last'.outcome = "resolved" THEN Append(saveAcks, last'.data) ELSE saveAcks

ConcSaveContinue(i) ==
    /\ SaveContinue(i)
    /\ saveAcks' = Append(saveAcks, pending[i].data)
    /\ UNCHANGED saveCalls

ConcNext ==
    /\ \/ \E k \in Keys, v \in InputValues :
             Len(docFieldKeysChanged) < MaxChanged /\ SetField(k, v) /\ UNCHANGED concVars
       \/ \E o \in ChangesOptions : ConcSave(o)
       \/ \E i \in DOMAIN pending : ConcSaveContinue(i)
       \/ \E i \in DOMAIN pending : RequestFails(i) /\ UNCHANGED concVars
    /\ UNCHANGED <<searchVars, binderVars, aliasVars, flightVars>>

SpecConc == Init /\ [][ConcNext]_vars

(***************************************************************************)
(* setField during the await of save's docRef.set.  lateSets keeps, for    *)
(* every key set while a write was in flight, the value of the latest such *)
(* call, and whether the handle was reset, saved in full mode or had the   *)
(* key set again since; a changes-only save and a load that succeeds       *)
(* forget them.                                                            *)
(***************************************************************************)
WriteInFlight == \E i \in DOMAIN pending : pending[i].op = "set"
Intervened(late) == [k \in DOMAIN late |-> [late[k] EXCEPT !.intervened = TRUE]]

FlightSetField(fieldName, value) ==
    /\ SetField(fieldName, value)
    /\ lateSets' = IF WriteInFlight
                   THEN Put(lateSets, fieldName, [val |-> value, intervened |-> FALSE])
                   ELSE IF fieldName \in DOMAIN lateSets
                   THEN [lateSets EXCEPT ![fieldName].intervened = TRUE]
                   ELSE lateSets

FlightReset ==
    /\ ResetDocFieldKeysChanged
    /\ lateSets' = Intervened(lateSets)

FlightLoadContinue(i) ==
    /\ LoadContinue(i)
    /\ lateSets' = IF LoadSucceeds(remoteDoc) THEN EmptyObj ELSE lateSets

FlightSave(option) ==
    /\ Save(option)
    /\ lateSets' = IF OnlyChanges(option) THEN EmptyObj ELSE Intervened(lateSets)

\* One value and undefined, and one option for each mode of save.
FlightValues == {Num(1), Undefined}
FlightSaveOptions == {"changes", "overwrite"}

FlightNext ==
    /\ \/ \E k \in Keys, v \in FlightValues :
             Len(docFieldKeysChanged) < MaxChanged /\ FlightSetField(k, v)
       \/ FlightReset
       \/ Len(pending) < MaxPending /\ Load /\ UNCHANGED flightVars
       \/ \E i \in DOMAIN pending : FlightLoadContinue(i)
       \/ \E o \in FlightSaveOptions : FlightSave(o) /\ Len(pending') <= MaxPending
       \/ \E i \in DOMAIN pending : SaveContinue(i) /\ UNCHANGED flightVars
       \/ \E i \in DOMAIN pending : RequestFails(i) /\ UNCHANGED flightVars
    /\ UNCHANGED <<concVars, searchVars, binderVars, aliasVars>>

SpecFlight == Init /\ [][FlightNext]_vars

(***************************************************************************)
(* registerFireDoc(...).withRawFilter                                      *)
(***************************************************************************)
searchPerPage == 100

Min(a, b) == IF a < b THEN a ELSE b
Max(a, b) == IF a > b THEN a ELSE b

\* Array.prototype.slice(start, end)
Slice(seq, start, end) ==
    LET len == Len(seq)
        from == IF start < 0 THEN Max(len + start, 0) ELSE Min(start, len)
        to == IF end < 0 THEN Max(len + end, 0) ELSE Min(end, len)
    IN  SubSeq(seq, from + 1, to)

\* Math.ceil(a / b) for a >= 0 and b > 0
Ceil(a, b) == (a + b - 1) \div b

\* The collection lists its documents in a fixed order; a document's id is
\* its position in that order.  collection.offset(o).limit(l).get()
QueryDocs(offset, limit) ==
    LET n == Max(0, Min(limit, collection - offset))
    IN  [i \in 1..n |-> offset + i - 1]

\* The data stored in the document with this id.
DataOf(id) == Put(EmptyObj, "a", Num(id % 3))

\* The offset of the window the loop fetches next.
WindowOffsetSkipsFirst(page) == (page + 1) * searchPerPage
WindowOffset(page) == page * searchPerPage

\* The loop breaks when the filtered ids of the window are empty.
ScanStopsOnEmptyWindow(ids, docs) == Len(docs) = 0
ScanStops(ids, docs) == Len(ids) = 0

\* One pass of the while(true) loop: fetch a window, filter it, stop or accumulate.
ScanWindow ==
    /\ searchPc = "scan"
    /\ queries' = Append(queries, WindowOffset(searchPage))
    /\ LET docs == QueryDocs(WindowOffset(searchPage), searchPerPage)
           ids == SelectSeq(docs, LAMBDA doc : doc \in matching)
       IN  IF ScanStops(ids, docs)
           THEN /\ searchPc' = "paginate"
                /\ UNCHANGED <<searchFoundItemIds, searchPage>>
           ELSE /\ searchFoundItemIds' = searchFoundItemIds \o ids
                /\ searchPage' = searchPage + 1
                /\ searchPc' = "scan"
    /\ UNCHANGED <<collection, matching, input, result>>

\* The first index of the requested page in searchFoundItemIds.
PageStartZeroBased(page, perPage) == perPage * page
PageStart(page, perPage) == perPage * (page - 1)

\* allPages, the slice, and a handle per selected id (constructed, not loaded yet).
Paginate ==
    /\ searchPc = "paginate"
    /\ LET allPages == Ceil(Len(searchFoundItemIds), input.perPage)
           idsFilteredByPagination ==
               Slice(searchFoundItemIds, PageStart(input.page, input.perPage), input.perPage * input.page)
       IN  result' = [allPages |-> allPages,
                      docs |-> [n \in DOMAIN idsFilteredByPagination |->
                                  [id |-> idsFilteredByPagination[n], docFields |-> EmptyObj,
                                   docFieldKeysChanged |-> <<>>, loaded |-> FALSE]]]
    /\ searchPc' = "load"
    /\ UNCHANGED <<collection, matching, input, searchPage, searchFoundItemIds, queries>>

\* One of the load() calls under Promise.all completes.
LoadDoc(n) ==
    /\ searchPc = "load"
    /\ n \in DOMAIN result.docs
    /\ ~result.docs[n].loaded
    /\ result' = [result EXCEPT !.docs[n] =
                     [id |-> result.docs[n].id, docFields |-> DataOf(result.docs[n].id),
                      docFieldKeysChanged |-> <<>>, loaded |-> TRUE]]
    /\ UNCHANGED <<collection, matching, input, searchPage, searchFoundItemIds, searchPc, queries>>

\* Promise.all resolves and withRawFilter returns.
SearchReturn ==
    /\ searchPc = "load"
    /\ \A n \in DOMAIN result.docs : result.docs[n].loaded
    /\ searchPc' = "done"
    /\ UNCHANGED <<collection, matching, input, searchPage, searchFoundItemIds, queries, result>>

CollectionSizes == {0, 150, 250}
CandidateIds == {0, 10, 20, 30, 99, 100, 120, 199, 200, 240}

SearchInit ==
    /\ collection \in CollectionSizes
    /\ matching \in SUBSET {id \in CandidateIds : id < collection}
    /\ input \in [page : 1..MaxPage, perPage : 1..MaxPerPage]
    /\ searchPage = 0
    /\ searchFoundItemIds = <<>>
    /\ searchPc = "scan"
    /\ queries = <<>>
    /\ result = [allPages |-> 0, docs |-> <<>>]
    /\ heap = [a \in Addrs |-> EmptyObj]
    /\ handles = <<>>
    /\ held = {}
    /\ acted = NoAct
    /\ lateSets = EmptyObj
    \* the handle variables are not used by the search
    /\ docRefId = "doc1"
    /\ docRef = Ref("users", "doc1")
    /\ docFields = EmptyObj
    /\ docFieldKeysChanged = <<>>
    /\ remoteDoc = NoDoc
    /\ pending = <<>>
    /\ last = Event("construct", "", Undefined, "", "returned", EmptyObj, "", "")
    /\ fullSave = NoFullSave
    /\ saveCalls = <<>>
    /\ saveAcks = <<>>
    /\ collectionPath = "users"
    /\ store = EmptyStore
    /\ binderCall = NoCall
    /\ calls = <<>>
    /\ made = <<>>

SearchNext ==
    /\ \/ ScanWindow
       \/ Paginate
       \/ \E n \in DOMAIN result.docs : LoadDoc(n)
       \/ SearchReturn
    /\ UNCHANGED <<handleVars, concVars, binderVars, aliasVars, flightVars>>

SpecSearch == SearchInit /\ [][SearchNext]_vars

(***************************************************************************)
(* registerFireDoc(...): create, withId, withQuery, withDocRef, and the    *)
(* FireDoc constructor they call.  One binder call is made; the caller     *)
(* then uses one of the handles it returned.  The value the collectionPath *)
(* function yields may change at any moment.                               *)
(***************************************************************************)
\* if(id): an id that is left out or is the empty string takes the else branch.
IdGiven(id) == id.given /\ id.value # ""

\* docFieldKeysChanged of a new handle.
InitialKeysChangedSeeded(fields) == SelectSeq(<<"a", "b">>, LAMBDA k : k \in DOMAIN fields)
InitialKeysChanged(fields) == <<>>

\* new FireDoc({firestore, id, docFields, collectionPath}): the handle, and
\* the calls the constructor makes on the database handle.
NewFireDoc(firestore, id, fields) ==
    LET docFieldsArg == IF fields.given THEN fields.value ELSE EmptyObj
        newId == IF IdGiven(id) THEN id.value ELSE AutoId
    IN  [firestore |-> firestore,
         docRefId |-> newId,
         docRef |-> Ref(collectionPath, newId),
         docFields |-> docFieldsArg,
         docFieldKeysChanged |-> InitialKeysChanged(docFieldsArg),
         calls |-> <<[call |-> IF IdGiven(id) THEN "firestore.doc" ELSE "collection.doc",
                      ref |-> Ref(collectionPath, newId), firestore |-> firestore]>>]

BinderReturns(op, id, ref) ==
    binderCall' = [at |-> "returned", op |-> op, id |-> id, ref |-> ref,
                   path |-> collectionPath, n |-> 0]

Create(id, fields) ==
    /\ binderCall.at = "start"
    /\ made' = <<NewFireDoc("firestore", id, fields)>>
    /\ BinderReturns("create", id, Ref("", ""))
    /\ UNCHANGED <<collectionPath, store, calls>>

WithId(id) ==
    /\ binderCall.at = "start"
    /\ made' = <<NewFireDoc("firestore", Given(id), NotGiven(EmptyObj))>>
    /\ BinderReturns("withId", Given(id), Ref("", ""))
    /\ UNCHANGED <<collectionPath, store, calls>>

\* withQuery(query), up to the await of query.get(); the query lists the
\* documents of one collection.
WithQuery(path) ==
    /\ binderCall.at = "start"
    /\ calls' = Append(calls, [call |-> "query.get", ref |-> Ref(path, ""), firestore |-> "query.firestore"])
    /\ binderCall' = [at |-> "withQuery", op |-> "withQuery", id |-> NotGiven(""),
                      ref |-> Ref(path, ""), path |-> "", n |-> 0]
    /\ UNCHANGED <<collectionPath, store, made>>

\* A handle for every document of the snapshot, with the document's id and data.
WithQueryContinue ==
    /\ binderCall.at = "withQuery"
    /\ LET docs == SelectSeq(<<Ref(binderCall.ref.collection, "doc1"),
                               Ref(binderCall.ref.collection, "doc2")>>,
                             LAMBDA r : store[r].exists)
       IN  made' = [n \in DOMAIN docs |-> NewFireDoc("doc.ref.firestore", Given(docs[n].id),
                                               Given(store[docs[n]].data))]
    /\ BinderReturns("withQuery", NotGiven(""), binderCall.ref)
    /\ UNCHANGED <<collectionPath, store, calls>>

\* withDocRef(docRef), up to the await of docRef.get().
WithDocRef(ref) ==
    /\ binderCall.at = "start"
    /\ calls' = Append(calls, [call |-> "get", ref |-> ref, firestore |-> "docRef.firestore"])
    /\ binderCall' = [at |-> "withDocRef", op |-> "withDocRef", id |-> NotGiven(""),
                      ref |-> ref, path |-> "", n |-> 0]
    /\ UNCHANGED <<collectionPath, store, made>>

\* doc.data() of the fetched snapshot, passed as docFields: undefined when
\* the document does not exist.
WithDocRefFieldsDropped(snapshot) == NotGiven(EmptyObj)
WithDocRefFields(snapshot) ==
    IF snapshot.exists THEN Given(snapshot.data) ELSE NotGiven(EmptyObj)

WithDocRefContinue ==
    /\ binderCall.at = "withDocRef"
    /\ made' = <<NewFireDoc("docRef.firestore", Given(binderCall.ref.id),
                         WithDocRefFields(store[binderCall.ref]))>>
    /\ BinderReturns("withDocRef", NotGiven(""), binderCall.ref)
    /\ UNCHANGED <<collectionPath, store, calls>>

\* The caller goes on with the n-th handle returned; remoteDoc is from now
\* on the document at that handle's docRef.
UseHandle(n) ==
    /\ binderCall.at = "returned"
    /\ n \in DOMAIN made
    /\ binderCall' = [binderCall EXCEPT !.at = "used", !.n = n]
    /\ docRefId' = made[n].docRefId
    /\ docRef' = made[n].docRef
    /\ docFields' = made[n].docFields
    /\ docFieldKeysChanged' = made[n].docFieldKeysChanged
    /\ remoteDoc' = IF made[n].docRef \in StoreRefs THEN store[made[n].docRef] ELSE NoDoc
    /\ UNCHANGED <<pending, last, fullSave, collectionPath, store, calls, made>>

\* The collectionPath function starts to yield another value.
PathChanges(path) ==
    /\ path # collectionPath
    /\ collectionPath' = path
    /\ UNCHANGED <<handleVars, store, binderCall, calls, made>>

StoreChoices ==
    {EmptyStore,
     [r \in StoreRefs |->
        CASE r = Ref("users", "doc1") -> Doc(Put(EmptyObj, "a", Num(1)))
          [] r = Ref("users", "doc2") -> Doc(Put(Put(EmptyObj, "a", Timestamp(1)), "b", Num(1)))
          [] r = Ref("tenant2/users", "doc1") -> Doc(Put(EmptyObj, "b", Timestamp(1)))
          [] OTHER -> NoDoc],
     [r \in StoreRefs |->
        CASE r = Ref("users", "doc1") -> Doc(EmptyObj)
          [] r = Ref("tenant2/users", "doc2") -> Doc(Put(EmptyObj, "a", Num(1)))
          [] OTHER -> NoDoc]}

IdArguments == {NotGiven(""), Given(""), Given("doc1")}
FieldsArguments == {NotGiven(EmptyObj)} \cup {Given(f) : f \in InitFields}

BinderInit ==
    /\ collectionPath \in Paths
    /\ store \in StoreChoices
    /\ binderCall = [NoCall EXCEPT !.at = "start"]
    /\ calls = <<>>
    /\ made = <<>>
    \* no handle yet
    /\ docRefId = ""
    /\ docRef = Ref("", "")
    /\ docFields = EmptyObj
    /\ docFieldKeysChanged = <<>>
    /\ remoteDoc = NoDoc
    /\ pending = <<>>
    /\ last = Event("construct", "", Undefined, "", "returned", EmptyObj, "", "")
    /\ fullSave = NoFullSave
    /\ saveCalls = <<>>
    /\ saveAcks = <<>>
    /\ collection = 0
    /\ matching = {}
    /\ input = [page |-> 1, perPage |-> 1]
    /\ searchPage = 0
    /\ searchFoundItemIds = <<>>
    /\ searchPc = "idle"
    /\ queries = <<>>
    /\ result = [allPages |-> 0, docs |-> <<>>]
    /\ heap = [a \in Addrs |-> EmptyObj]
    /\ handles = <<>>
    /\ held = {}
    /\ acted = NoAct
    /\ lateSets = EmptyObj

BinderNext ==
    \/ /\ \/ \E id \in IdArguments, fields \in FieldsArguments : Create(id, fields)
          \/ \E id \in {"", "doc1", "doc2"} : WithId(id)
          \/ \E path \in Paths : WithQuery(path)
          \/ WithQueryContinue
          \/ \E ref \in StoreRefs : WithDocRef(ref)
          \/ WithDocRefContinue
       /\ UNCHANGED <<handleVars, concVars, searchVars, aliasVars, flightVars>>
    \/ /\ \E n \in DOMAIN made : UseHandle(n)
       /\ UNCHANGED <<concVars, searchVars, aliasVars, flightVars>>
    \/ /\ \E path \in Paths : PathChanges(path)
       /\ UNCHANGED <<concVars, searchVars, aliasVars, flightVars>>
    \/ /\ binderCall.at = "used"
       /\ \/ Len(pending) < MaxPending /\ Load
          \/ \E i \in DOMAIN pending : LoadContinue(i)
          \/ \E o \in SaveOptions : Save(o) /\ Len(pending') <= MaxPending
          \/ \E i \in DOMAIN pending : SaveContinue(i)
          \/ Len(pending) < MaxPending /\ Delete
          \/ \E i \in DOMAIN pending : DeleteContinue(i)
          \/ \E i \in DOMAIN pending : RequestFails(i)
       /\ UNCHANGED <<concVars, searchVars, binderVars, aliasVars, flightVars>>

SpecBinder == BinderInit /\ [][BinderNext]_vars

(***************************************************************************)
(* Object identity: the constructor keeps the object it is given           *)
(* (this.docFields = docFields), setField assigns a property of that       *)
(* object, getAllFields returns it, load replaces it with the snapshot's.  *)
(* A caller makes objects and handles and calls the handles' methods.      *)
(***************************************************************************)
MaxHandles == 2       \* handles made in the shared-object scenario
MaxAliasChanged == 1  \* longest docFieldKeysChanged explored in the shared-object scenario

AliasKeys == {"a"}
AliasValues == {Num(2), Undefined}
AliasObjects == {EmptyObj, Put(EmptyObj, "a", Num(1))}

Allocated == {a \in Addrs : \E n \in DOMAIN handles : handles[n].docFields = a} \cup held
FreshAddr == CHOOSE a \in Addrs \ Allocated : \A b \in Addrs \ Allocated : a <= b
FieldsOf(n) == heap[handles[n].docFields]

\* An object no handle and no caller refers to any more is garbage; its
\* address holds the empty object until it is allocated again.
Unreferenced(addr, hs) == addr \notin held /\ \A n \in DOMAIN hs : hs[n].docFields # addr

\* The caller writes an object literal.
MakeObject(object) ==
    /\ Allocated # Addrs
    /\ heap' = [heap EXCEPT ![FreshAddr] = object]
    /\ held' = held \cup {FreshAddr}
    /\ acted' = [op |-> "object", handle |-> 0]
    /\ UNCHANGED handles

\* create(id, fields) with an object the caller holds:
\* this.docFields = docFields.
CreateWith(addr) ==
    /\ Len(handles) < MaxHandles
    /\ addr \in held
    /\ handles' = Append(handles, [docFields |-> addr, docFieldKeysChanged |-> <<>>])
    /\ acted' = [op |-> "create", handle |-> Len(handles) + 1]
    /\ UNCHANGED <<heap, held>>

\* create(id) and withId(id): docFields = {} is a new object.
CreateEmpty ==
    /\ Len(handles) < MaxHandles
    /\ Allocated # Addrs
    /\ heap' = [heap EXCEPT ![FreshAddr] = EmptyObj]
    /\ handles' = Append(handles, [docFields |-> FreshAddr, docFieldKeysChanged |-> <<>>])
    /\ acted' = [op |-> "create", handle |-> Len(handles) + 1]
    /\ UNCHANGED held

\* getAllFields(): return this.docFields
GetAllFields(n) ==
    /\ n \in DOMAIN handles
    /\ held' = held \cup {handles[n].docFields}
    /\ acted' = [op |-> "getAllFields", handle |-> n]
    /\ UNCHANGED <<heap, handles>>

\* setField on the n-th handle: this.docFields[fieldName] = value
SetFieldOn(n, fieldName, value) ==
    /\ n \in DOMAIN handles
    /\ heap' = [heap EXCEPT ![handles[n].docFields] = Put(@, fieldName, StoredValue(value))]
    /\ handles' = [handles EXCEPT ![n].docFieldKeysChanged = Append(@, fieldName)]
    /\ acted' = [op |-> "setField", handle |-> n]
    /\ UNCHANGED held

\* resetDocFieldKeysChanged on the n-th handle.
ResetOn(n) ==
    /\ n \in DOMAIN handles
    /\ handles' = [handles EXCEPT ![n].docFieldKeysChanged = ChangedKeysAfterReset(@)]
    /\ acted' = [op |-> "resetDocFieldKeysChanged", handle |-> n]
    /\ UNCHANGED <<heap, held>>

\* A load of the n-th handle that finds the document: this.docFields is the
\* object snapshot.data() made.
LoadOn(n, docData) ==
    /\ n \in DOMAIN handles
    /\ Allocated # Addrs
    /\ handles' = [handles EXCEPT ![n] = [docFields |-> FreshAddr,
                                          docFieldKeysChanged |-> ChangedKeysAfterReset(@.docFieldKeysChanged)]]
    /\ heap' = [a \in Addrs |->
                  IF a = FreshAddr THEN LoadedFields(FieldsOf(n), docData)
                  ELSE IF Unreferenced(a, handles') THEN EmptyObj ELSE heap[a]]
    /\ acted' = [op |-> "load", handle |-> n]
    /\ UNCHANGED held

AliasInit ==
    /\ heap = [a \in Addrs |-> EmptyObj]
    /\ handles = <<>>
    /\ held = {}
    /\ acted = NoAct
    /\ lateSets = EmptyObj
    /\ docRefId = ""
    /\ docRef = Ref("", "")
    /\ docFields = EmptyObj
    /\ docFieldKeysChanged = <<>>
    /\ remoteDoc = NoDoc
    /\ pending = <<>>
    /\ last = Event("construct", "", Undefined, "", "returned", EmptyObj, "", "")
    /\ fullSave = NoFullSave
    /\ saveCalls = <<>>
    /\ saveAcks = <<>>
    /\ collection = 0
    /\ matching = {}
    /\ input = [page |-> 1, perPage |-> 1]
    /\ searchPage = 0
    /\ searchFoundItemIds = <<>>
    /\ searchPc = "idle"
    /\ queries = <<>>
    /\ result = [allPages |-> 0, docs |-> <<>>]
    /\ collectionPath = "users"
    /\ store = EmptyStore
    /\ binderCall = NoCall
    /\ calls = <<>>
    /\ made = <<>>

AliasNext ==
    /\ \/ \E object \in AliasObjects : MakeObject(object)
       \/ \E addr \in Addrs : CreateWith(addr)
       \/ CreateEmpty
       \/ \E n \in DOMAIN handles : GetAllFields(n)
       \/ \E n \in DOMAIN handles, k \in AliasKeys, v \in AliasValues :
             Len(handles[n].docFieldKeysChanged) < MaxAliasChanged /\ SetFieldOn(n, k, v)
       \/ \E n \in DOMAIN handles : ResetOn(n)
       \/ \E n \in DOMAIN handles, docData \in AliasObjects : LoadOn(n, docData)
    /\ UNCHANGED <<handleVars, concVars, searchVars, binderVars, flightVars>>

SpecAlias == AliasInit /\ [][AliasNext]_vars

(***************************************************************************)
(* Properties                                                              *)
(***************************************************************************)
AllSavesCompleted == Len(saveCalls) >= 2 /\ Len(saveAcks) = Len(saveCalls)
DisjointSaves ==
    \A i, j \in DOMAIN saveCalls : i # j => (DOMAIN saveCalls[i]) \cap (DOMAIN saveCalls[j]) = {}

\* C1 as stated: once concurrent changes-only saves with disjoint changed
\* field sets have all completed successfully, the remote document contains
\* every field of every payload with the value the payload carried.
C1_UnionContainsEveryField ==
    (AllSavesCompleted /\ DisjointSaves) =>
        \A i \in DOMAIN saveCalls : \A k \in DOMAIN saveCalls[i] :
            k \in DOMAIN remoteDoc.data /\ remoteDoc.data[k] = saveCalls[i][k]

\* C1 amended: once concurrent changes-only saves with disjoint changed field
\* sets have all completed successfully, the remote document exists, holds
\* every field that was set to a value with that value, and holds no field
\* that was set to undefined (its deletion marker removed it).
C1_UnionPersisted ==
    (AllSavesCompleted /\ DisjointSaves) =>
        \A i \in DOMAIN saveCalls : \A k \in DOMAIN saveCalls[i] :
            IF saveCalls[i][k] = FieldDelete
            THEN k \notin DOMAIN remoteDoc.data
            ELSE /\ remoteDoc.exists
                 /\ k \in DOMAIN remoteDoc.data
                 /\ remoteDoc.data[k] = saveCalls[i][k]

\* Two saves with non-empty disjoint payloads were in flight together and
\* completed in the reverse of their call order.
C1_Witness ==
    /\ Len(saveCalls) = 2
    /\ DOMAIN saveCalls[1] # {}
    /\ DOMAIN saveCalls[2] # {}
    /\ DisjointSaves
    /\ saveAcks = <<saveCalls[2], saveCalls[1]>>
    /\ \A k \in DOMAIN saveCalls[1] : saveCalls[1][k] # FieldDelete

MergeWriteApplied ==
    /\ remoteDoc'.exists
    /\ \A k \in (DOMAIN remoteDoc.data) \ (DOMAIN last'.data) :
          k \in DOMAIN remoteDoc'.data /\ remoteDoc'.data[k] = remoteDoc.data[k]

C4_SetThenGet ==
    (last.op = "setField") =>
        GetField(docFields, last.key) =
            (IF last.val.kind = "Timestamp" THEN Date(last.val.v * 1000) ELSE last.val)

\* C5: a load whose fetch finds no remote document fails with the
\* "does not exist" error carrying the handle's id; its promise rejects, so
\* the handle is not returned.
C5_LoadNotFound ==
    (last.op = "loadDone" /\ last.err # "database failure" /\ ~remoteDoc.exists) =>
        (last.outcome = "rejected" /\ last.err = "does not exist" /\ last.id = docRefId)

C5_Witness ==
    /\ last.op = "loadDone"
    /\ ~remoteDoc.exists
    /\ last.outcome = "rejected"
    /\ last.err = "does not exist"
    /\ docFields # EmptyObj

\* C6: when load completes successfully, docFields is exactly the fetched
\* document data and docFieldKeysChanged is empty, also when setField ran
\* while the load was in flight.
C6_LoadOverwrites ==
    (last.op = "loadDone" /\ last.outcome = "resolved") =>
        /\ docFields = last.data
        /\ docFields = remoteDoc.data
        /\ docFieldKeysChanged = <<>>

\* A load completed after setField ran while it was in flight.
C6_Witness ==
    /\ last.op = "loadDone"
    /\ last.outcome = "resolved"
    /\ last.option = "dirty"
    /\ docFieldKeysChanged = <<>>

\* C7: getDocDataForSaveOperation(true) has exactly the keys that occur in
\* docFieldKeysChanged and are keys of docFields, each with its value in
\* docFields; a key occurring several times occurs once.
C7_ChangedPayload ==
    GetDocDataForSaveOperation(docFields, docFieldKeysChanged, TRUE) =
        [k \in {docFieldKeysChanged[i] : i \in DOMAIN docFieldKeysChanged} \cap DOMAIN docFields
            |-> docFields[k]]

\* A key was changed twice, and another changed key is no longer a key of docFields.
C7_Witness ==
    /\ docFieldKeysChanged = <<"a", "a", "b">>
    /\ DOMAIN docFields = {"a"}

\* C8: a save whose payload is empty issues no request, leaves the remote
\* document alone and resolves with the handle; a changes-only save with
\* empty docFieldKeysChanged is such a save.
C8_EmptyPayloadNoWrite ==
    [][/\ (last'.op = "save" /\ DOMAIN last'.data = {}) =>
            /\ pending' = pending
            /\ remoteDoc' = remoteDoc
            /\ last'.outcome = "resolved"
            /\ last'.id = docRefId
       /\ (last'.op = "save" /\ OnlyChanges(last'.option) /\ docFieldKeysChanged = <<>>) =>
            (DOMAIN last'.data = {} /\ pending' = pending)]_vars

\* A changes-only save of a handle that holds fields but changed none.
C8_Witness ==
    /\ last.op = "save"
    /\ OnlyChanges(last.option)
    /\ DOMAIN last.data = {}
    /\ last.outcome = "resolved"
    /\ docFields # EmptyObj
    /\ pending = <<>>

\* C9: the save that follows setField(k, undefined), in changes-only and in
\* full mode, has k mapped to the deletion marker in its payload and issues
\* the write of that payload, and the write removes k from the remote document.
C9_DeleteMarkerSaved ==
    [][/\ (last.op = "setField" /\ last.val = Undefined /\ last'.op = "save") =>
            /\ last.key \in DOMAIN last'.data
            /\ last'.data[last.key] = FieldDelete
            /\ last'.outcome = "pending"
            /\ Len(pending') = Len(pending) + 1
            /\ pending'[Len(pending')].data = last'.data
       /\ (last'.op = "saveDone" /\ last'.outcome = "resolved") =>
            \A k \in DOMAIN last'.data :
                last'.data[k] = FieldDelete => k \notin DOMAIN remoteDoc'.data]_vars

\* C10: withRawFilter returns allPages = ceil(M / perPage), M the number of
\* accumulated matches, and docs = the loaded handles of the matches at
\* 0-based positions [(page-1)*perPage, page*perPage) of the accumulated
\* list, in that order.
C10_PageResult ==
    (searchPc = "done") =>
        LET M == Len(searchFoundItemIds)
            lo == (input.page - 1) * input.perPage
            hi == input.page * input.perPage
            positions == {j \in lo..(hi - 1) : j < M}
        IN  /\ result.allPages * input.perPage >= M
            /\ (result.allPages - 1) * input.perPage < M
            /\ Len(result.docs) = Cardinality(positions)
            /\ \A n \in DOMAIN result.docs :
                  /\ result.docs[n].id = searchFoundItemIds[lo + n]
                  /\ result.docs[n].loaded
                  /\ result.docs[n].docFields = DataOf(result.docs[n].id)
                  /\ result.docs[n].docFieldKeysChanged = <<>>

\* Five matches in the first window, none in the second, perPage 2, page 2:
\* three pages and the third and fourth match.
C10_Witness ==
    /\ searchPc = "done"
    /\ matching = {0, 10, 20, 30, 99}
    /\ collection = 250
    /\ input = [page |-> 2, perPage |-> 2]
    /\ result.allPages = 3
    /\ Len(result.docs) = 2
    /\ result.docs[1].id = 20
    /\ result.docs[2].id = 30

\* The documents of the window at this offset that the filter accepts.
MatchesInWindow(offset) ==
    {id \in matching : id >= offset /\ id < offset + searchPerPage /\ id < collection}

\* C11: when the filter accepts no document of the first window,
\* withRawFilter returns {allPages: 0, docs: []} after exactly one window
\* fetch and without loading a document, whatever page and perPage are and
\* whatever documents lie beyond the first window.
C11_NoMatchInFirstWindow ==
    (MatchesInWindow(0) = {}) =>
        /\ Len(queries) <= 1
        /\ searchFoundItemIds = <<>>
        /\ result.docs = <<>>
        /\ (searchPc = "done" => (queries = <<0>> /\ result = [allPages |-> 0, docs |-> <<>>]))

\* No match in the first window, matches in the second and the third.
C11_Witness ==
    /\ searchPc = "done"
    /\ matching = {100, 120, 200}
    /\ input = [page |-> 2, perPage |-> 3]
    /\ queries = <<0>>
    /\ result = [allPages |-> 0, docs |-> <<>>]

\* C18: the scan fetches the windows at offsets 0, 100, 200, ... in sequence
\* and stops at the first window k whose filtered result is empty; the
\* accumulated list is the matches of windows 0..k-1 in collection order,
\* so a match in a window after k is never in it.
C18_ScanStopsAtFirstEmptyWindow ==
    LET scanning == searchPc \in {"scan", "idle"}
        fetched == IF scanning THEN searchPage ELSE searchPage + 1
        found == {searchFoundItemIds[i] : i \in DOMAIN searchFoundItemIds}
    IN  /\ Len(queries) = fetched
        /\ \A i \in DOMAIN queries : queries[i] = (i - 1) * searchPerPage
        /\ \A j \in 0..(searchPage - 1) : MatchesInWindow(j * searchPerPage) # {}
        /\ ~scanning => MatchesInWindow(searchPage * searchPerPage) = {}
        /\ found = UNION {MatchesInWindow(j * searchPerPage) : j \in 0..(searchPage - 1)}
        /\ \A i, j \in DOMAIN searchFoundItemIds :
              i < j => searchFoundItemIds[i] < searchFoundItemIds[j]

\* Matches in the first and the third window, none in the second: the scan
\* stops after two fetches and the matches of the third window are left out.
C18_Witness ==
    /\ searchPc = "done"
    /\ matching = {0, 30, 200, 240}
    /\ queries = <<0, 100>>
    /\ searchFoundItemIds = <<0, 30>>
    /\ result.allPages * input.perPage < 4

\* The keys that occur in docFieldKeysChanged.
ChangedKeySet == {docFieldKeysChanged[i] : i \in DOMAIN docFieldKeysChanged}

\* C13: every save call, in every mode, computes its payload from
\* docFieldKeysChanged as it was and then empties docFieldKeysChanged, in the
\* step that issues the write and also when no write is issued; only
\* setField adds keys again, and a changes-only save that follows a save
\* has an empty payload and issues nothing.
C13_SaveEmptiesChangedKeys ==
    [][/\ (last'.op = "save") =>
            /\ docFieldKeysChanged' = <<>>
            /\ OnlyChanges(last'.option) =>
                  DOMAIN last'.data = ChangedKeySet \cap DOMAIN docFields
       /\ (last.op = "save" /\ last'.op = "save" /\ OnlyChanges(last'.option)) =>
            (DOMAIN last'.data = {} /\ pending' = pending)
       /\ (docFieldKeysChanged' # docFieldKeysChanged /\ docFieldKeysChanged' # <<>>) =>
            last'.op = "setField"]_vars

\* A changes-only save has issued the write of a non-empty payload and
\* docFieldKeysChanged is already empty.
C13_Witness ==
    /\ last.op = "save"
    /\ OnlyChanges(last.option)
    /\ last.outcome = "pending"
    /\ DOMAIN last.data # {}
    /\ pending # <<>>
    /\ pending[Len(pending)].data = last.data
    /\ docFieldKeysChanged = <<>>

\* C14: delete() can be called in every state; it issues exactly one delete
\* request for the handle's document and leaves docFields,
\* docFieldKeysChanged and the id as they were, at the call and when the
\* request completes; the completed delete removes the remote document.
C14_DeleteLeavesLocalState ==
    /\ [](ENABLED Delete)
    /\ [][/\ (last'.op = "delete") =>
               /\ pending' = Append(pending, Request("delete", EmptyObj, FALSE, FALSE))
               /\ UNCHANGED <<docFields, docFieldKeysChanged, docRefId, remoteDoc>>
          /\ (last'.op = "deleteDone") =>
               /\ UNCHANGED <<docFields, docFieldKeysChanged, docRefId>>
               /\ Len(pending') = Len(pending) - 1
               /\ (last'.outcome = "resolved" => ~remoteDoc'.exists)]_vars

\* A delete completed on a handle that holds fields and is dirty.
C14_Witness ==
    /\ last.op = "deleteDone"
    /\ last.outcome = "resolved"
    /\ ~remoteDoc.exists
    /\ DOMAIN docFields = Keys
    /\ docFieldKeysChanged # <<>>

\* C20: the payload of save is getDocDataForSaveOperation(true), the changed
\* keys only, for no argument, 'changes' and true, and all of docFields,
\* changed or not, for 'overwrite' and false; the write that is issued
\* carries that payload.
C20_PayloadByMode ==
    [][(last'.op = "save") =>
          /\ last'.data =
                IF last'.option \in {"default", "changes", "true"}
                THEN [k \in ChangedKeySet \cap DOMAIN docFields |-> docFields[k]]
                ELSE docFields
          /\ (last'.outcome = "pending") => pending'[Len(pending')].data = last'.data]_vars

\* A save in full mode with one changed key carries both fields.
C20_Witness ==
    /\ last.op = "save"
    /\ last.option = "false"
    /\ last.outcome = "pending"
    /\ DOMAIN last.data = Keys
    /\ last.data = docFields

\* C12: a handle the binder constructed with initial field values (create,
\* withQuery, withDocRef) and on which no field was set has no changed key,
\* the changes-only payload is empty, and a changes-only save issues no write.
C12_FreshHandleHasNoChanges ==
    /\ [](/\ \A n \in DOMAIN made :
                /\ made[n].docFieldKeysChanged = <<>>
                /\ GetDocDataForSaveOperation(made[n].docFields,
                                              made[n].docFieldKeysChanged, TRUE) = EmptyObj
          /\ docFieldKeysChanged = <<>>
          /\ GetDocDataForSaveOperation(docFields, docFieldKeysChanged, TRUE) = EmptyObj)
    /\ [][(last'.op = "save" /\ OnlyChanges(last'.option)) =>
              /\ last'.data = EmptyObj
              /\ last'.outcome = "resolved"
              /\ pending' = pending
              /\ remoteDoc' = remoteDoc]_vars

\* A handle withQuery built from a document that has fields, after a
\* changes-only save that wrote nothing.
C12_Witness ==
    /\ binderCall.at = "used"
    /\ binderCall.op = "withQuery"
    /\ docFields # EmptyObj
    /\ last.op = "save"
    /\ last.option = "changes"
    /\ last.outcome = "resolved"
    /\ pending = <<>>

\* C15 as stated: the id of a handle never changes, and every request that
\* load, save or delete issues goes to the collection path as it is when the
\* request is issued, joined to the id.
C15_LocationFollowsPath ==
    /\ [](binderCall.at = "used" => docRefId = made[binderCall.n].docRefId)
    /\ [][Len(pending') > Len(pending) =>
              pending'[Len(pending')].ref = Ref(collectionPath, docRefId)]_vars

\* C15: the id of a handle never changes, and every request that load, save
\* or delete issues goes to the collection path as it was when the handle
\* was constructed, joined to the id, whatever the path function yields later.
C15_LocationFixedAtConstruction ==
    /\ [](binderCall.at = "used" =>
              /\ docRefId = made[binderCall.n].docRefId
              /\ docRef = Ref(binderCall.path, docRefId))
    /\ [][Len(pending') > Len(pending) =>
              pending'[Len(pending')].ref = Ref(binderCall.path, docRefId)]_vars

\* The path function yields another value than at construction, and a write
\* is in flight to the location of construction.
C15_Witness ==
    /\ binderCall.at = "used"
    /\ collectionPath # binderCall.path
    /\ Len(pending) = 1
    /\ pending[1].op = "set"
    /\ pending[1].ref = Ref(binderCall.path, docRefId)
    /\ pending[1].ref # Ref(collectionPath, docRefId)

\* C16: when create or withId returns, no fetch or write was made; a handle
\* constructed without an id made exactly one id-allocation call under the
\* collection path and has the generated id; a handle constructed with an id
\* the caller supplied made no allocation call and has the supplied id.
C16_ConstructionCalls ==
    (binderCall.at = "returned" /\ binderCall.op \in {"create", "withId"}) =>
        LET handle == made[1]
            allocations == SelectSeq(handle.calls, LAMBDA c : c.call = "collection.doc")
        IN  /\ calls = <<>>
            /\ pending = <<>>
            /\ IF binderCall.id.given
               THEN /\ allocations = <<>>
                    /\ handle.docRefId = binderCall.id.value
               ELSE /\ allocations = <<[call |-> "collection.doc",
                                        ref |-> Ref(binderCall.path, AutoId),
                                        firestore |-> "firestore"]>>
                    /\ handle.calls = allocations
                    /\ handle.docRefId = AutoId

C19_HandlesIndependent ==
    [][\A n \in DOMAIN handles :
          acted'.handle # n =>
              /\ heap'[handles'[n].docFields] = FieldsOf(n)
              /\ handles'[n].docFieldKeysChanged = handles[n].docFieldKeysChanged]_vars

\* C21: whatever calls of setField, setFields, resetDocFieldKeysChanged,
\* load, save and delete were made and however their continuations
\* interleave, every key in docFieldKeysChanged is a key of docFields, and
\* the changes-only payload has exactly the changed keys.
C21_ChangedKeysAreFields ==
    /\ \A i \in DOMAIN docFieldKeysChanged : docFieldKeysChanged[i] \in DOMAIN docFields
    /\ DOMAIN GetDocDataForSaveOperation(docFields, docFieldKeysChanged, TRUE) = ChangedKeySet

\* Two keys are changed, one of them set to undefined, while a load that
\* was started before a setField is still in flight.
C21_Witness ==
    /\ ChangedKeySet = Keys
    /\ \E k \in Keys : docFields[k] = FieldDelete
    /\ Len(pending) = 1
    /\ pending[1].op = "get"
    /\ pending[1].dirty

\* What C22 says of a step: a setField made while a write is in flight
\* leaves the request of that write as it is and puts its key in
\* docFieldKeysChanged, the completion of a write leaves docFields and
\* docFieldKeysChanged as they are, and a changes-only save carries, for every
\* key in late, the value that setField stored for it.
LateSetsSaved(late) ==
    /\ (last'.op = "setField" /\ WriteInFlight) =>
            /\ Len(pending') = Len(pending)
            /\ \A i \in DOMAIN pending : pending[i].op = "set" => pending'[i] = pending[i]
            /\ last'.key \in {docFieldKeysChanged'[i] : i \in DOMAIN docFieldKeysChanged'}
            /\ docFields'[last'.key] = StoredValue(last'.val)
    /\ (last'.op = "saveDone" /\ Len(pending') < Len(pending)) =>
            /\ docFieldKeysChanged' = docFieldKeysChanged
            /\ docFields' = docFields
            /\ \A k \in late : k \in ChangedKeySet
    /\ (last'.op = "save" /\ OnlyChanges(last'.option)) =>
            \A k \in late :
                /\ k \in DOMAIN last'.data
                /\ last'.data[k] = StoredValue(lateSets[k].val)

\* C22 as stated: a setField(k, v) made while a write is in flight is not
\* part of that write, k is still in docFieldKeysChanged when the write
\* completes, and the next changes-only save, when no load succeeded in
\* between, has k with the value stored for v in its payload.
C22_LateSetFieldSavedUnlessLoaded ==
    [][LateSetsSaved(DOMAIN lateSets)]_vars

\* C22: a setField(k, v) made while a write is in flight is not part of that
\* write, k is still in docFieldKeysChanged when the write completes, and the
\* next changes-only save has k with the value stored for v in its payload
\* when in between no load succeeded, the changed keys were not reset, no
\* full-mode save was made and k was not set again.
C22_LateSetFieldSaved ==
    [][LateSetsSaved({k \in DOMAIN lateSets : ~lateSets[k].intervened})]_vars

\* A write has completed without a key that was set while it was in
\* flight; the key is still marked as changed and nothing intervened.
C22_Witness ==
    /\ last.op = "saveDone"
    /\ last.outcome = "resolved"
    /\ pending = <<>>
    /\ \E k \in DOMAIN lateSets :
          /\ ~lateSets[k].intervened
          /\ k \in ChangedKeySet
          /\ k \notin DOMAIN last.data
          /\ docFields[k] = StoredValue(lateSets[k].val)

\* C23: when the write of a save fails, the save throws the database's
\* failure as it is, the remote document, docFields and docFieldKeysChanged
\* stay as they are, and docFieldKeysChanged holds only keys set since that
\* save was called.  The save that follows immediately sends, in changes-only
\* mode, only such keys, and issues no write when there is none; in full
\* mode it sends all of docFields.
C23_FailedSaveNotRetransmitted ==
    [][/\ (last'.op = "saveDone" /\ last'.outcome = "rejected") =>
            /\ \E i \in DOMAIN pending :
                  /\ pending[i].op = "set"
                  /\ pending' = RemoveAt(pending, i)
                  /\ last'.data = pending[i].data
            /\ last'.err = "database failure"
            /\ remoteDoc' = remoteDoc
            /\ docFields' = docFields
            /\ docFieldKeysChanged' = docFieldKeysChanged
            /\ ChangedKeySet \subseteq {k \in DOMAIN lateSets : ~lateSets[k].intervened}
       /\ (last.op = "saveDone" /\ last.outcome = "rejected" /\ last'.op = "save") =>
            IF OnlyChanges(last'.option)
            THEN /\ DOMAIN last'.data = ChangedKeySet
                 /\ ChangedKeySet \subseteq DOMAIN lateSets
                 /\ (ChangedKeySet = {}) =>
                        (last'.outcome = "resolved" /\ pending' = pending /\ remoteDoc' = remoteDoc)
            ELSE last'.data = docFields]_vars

\* The write of a save has failed: no key is marked as changed, docFields
\* still has the values of the failed payload and the remote document lacks
\* one of them.
C23_Witness ==
    /\ last.op = "saveDone"
    /\ last.outcome = "rejected"
    /\ last.data # EmptyObj
    /\ docFieldKeysChanged = <<>>
    /\ pending = <<>>
    /\ \A k \in DOMAIN last.data : k \in DOMAIN docFields /\ docFields[k] = last.data[k]
    /\ \E k \in DOMAIN last.data :
          ~remoteDoc.exists \/ k \notin DOMAIN remoteDoc.data \/ remoteDoc.data[k] # last.data[k]

====
